---- MODULE Spec2Model ----
(***************************************************************************)
(* SEM campaign planner: the LangGraph pipeline of src/workflow.py, its    *)
(* stages (src/agents/*.py), the workflow manager and the FastAPI job      *)
(* registry of src/main.py.                                                *)
(*                                                                         *)
(* Number conventions: scores of ad groups are in hundredths (70 = 0.7),   *)
(* opportunity scores in millionths (150000 = 0.15), competition in tenths *)
(* (20 = 2.0), bids in cents, job progress in tenths (10 = 1.0).           *)
(***************************************************************************)
EXTENDS Integers, Sequences, FiniteSets, TLC

VARIABLES
    clock,          \* wall clock in whole seconds (datetime.now() formatted %Y%m%d_%H%M%S)
    job_statuses,   \* main.job_statuses: job id -> JobStatus
    tasks,          \* background tasks added by generate_plan, in submission order
    state,          \* GlobalState of the run executed by task 1
    pc,             \* node the graph dispatches next ("idle" before ainvoke, "END", "raised")
    steps,          \* super-steps (stage invocations) performed by the graph so far
    trace,          \* stage names in dispatch order
    exc,            \* the exception that ended the graph run, NoneV if none
    gate,           \* evaluations of _should_recluster so far, the counter seen by the
                    \* last two, and the last decision
    clusterer,      \* the HDBSCAN clusterer of the last clustering pass: whether
                    \* fit_predict was called, whether it raised, the labels it gave
    processed,      \* what the last KeywordProcessor call read: state.raw_keywords and
                    \* state.error_log at its entry (NoneV before any call)
    writers         \* for each output slot of GlobalState, the stages whose returned
                    \* update named it so far

vars == <<clock, job_statuses, tasks, state, pc, steps, trace, exc, gate, clusterer,
          processed, writers>>
pipeVars == <<state, pc, steps, trace, exc, gate, clusterer, processed, writers>>
jobVars == <<clock, job_statuses, tasks>>

----------------------------------------------------------------------------
(* Bounds of the model *)

MaxClock == 2        \* the clock runs 0..MaxClock
MaxJobs == 3         \* submissions accepted in the multi-job specification
MaxGateGroups == 5   \* ad groups handed to the quality gate when it is checked alone
MaxGateAttempts == 4 \* attempt counter handed to the quality gate when it is checked alone
MaxEmbeddings == 4   \* embeddings handed to the Cluster Builder when it is checked alone
MaxRaw == 3          \* raw keywords of a mixed list handed to the Keyword Processor
MaxOverflow == 2     \* raw keywords beyond max_keywords in the long lists handed to it
MaxBidKeywords == 3  \* keyword ids known to the Campaign Designer when it is checked alone
Dim == 2             \* length of a well-formed embedding vector

(* Program constants *)

RecursionLimit == 50
MaxEmptyAttempts == 3
MaxPoorAttempts == 2
MinGroupSize == 3
MinGroupScore == 70
PoorNum == 3
PoorDen == 10
SmallInput == 3
MinClusterSize == 2
SimpleScore == 80
FallbackScore == 70
NoiseScore == 60
DefaultProbScore == 80

----------------------------------------------------------------------------
(* Python values *)

NoneV == <<>>                       \* Optional slot: None
Some(x) == <<x>>                    \* Optional slot holding x
IsNone(o) == o = <<>>
Get(o) == o[1]
FalsyList(o) == IsNone(o) \/ Len(Get(o)) = 0   \* `not x` for Optional[List]

Min(a, b) == IF a <= b THEN a ELSE b

Range(s) == {s[i] : i \in DOMAIN s}

RECURSIVE SeqSum(_)
SeqSum(s) == IF s = <<>> THEN 0 ELSE Head(s) + SeqSum(Tail(s))

SelectIdx(n, P(_)) ==   \* the indices 1..n satisfying P, ascending, as a sequence
    LET RECURSIVE go(_)
        go(i) == IF i > n THEN <<>>
                 ELSE IF P(i) THEN <<i>> \o go(i + 1) ELSE go(i + 1)
    IN go(1)

----------------------------------------------------------------------------
(* Raw keywords (schemas/state.py RawKeyword).  A term is described by what *)
(* the code reads of it: its word count, its trimmed length and whether it  *)
(* contains one of the commercial modifiers.                                *)

RawKeyword(k, w, c, com, s, comp, bid) ==
    [keyword |-> k, words |-> w, chars |-> c, commercial |-> com,
     avg_monthly_searches |-> s, competition |-> comp, suggested_bid |-> bid,
     opportunity_score |-> NoneV]

Catalog ==   \* what the keyword source can return, in its order
    << RawKeyword("buy shoes",    2,  9, TRUE,  1200, 20,  150),
       RawKeyword("cheap shoes",  2, 11, FALSE,   80, 20,  100),
       RawKeyword("shoes review", 2, 12, FALSE, 6000, 45, 12000),
       RawKeyword("x",            1,  1, FALSE,   40, 10,    0) >>

(* Further terms, as FallbackNaming and the filter read them *)
ExtraTerms ==
    << RawKeyword("running shoes", 2, 13, FALSE, 900, 30, 200),
       RawKeyword("top sneakers",  2, 12, FALSE, 700, 25, 180) >>

SourceResults ==   \* every selection of catalog entries, catalog order kept
    { [i \in 1..Len(SelectIdx(Len(Catalog), LAMBDA j : j \in S))
          |-> Catalog[SelectIdx(Len(Catalog), LAMBDA j : j \in S)[i]]] :
      S \in SUBSET (1..Len(Catalog)) }

(* KeywordProcessor._calculate_opportunity_score, in millionths *)
SearchVolumeNorm(kw) ==   \* in tenths
    IF kw.avg_monthly_searches <= 100 THEN 2
    ELSE IF kw.avg_monthly_searches <= 1000 THEN 5
    ELSE IF kw.avg_monthly_searches <= 5000 THEN 8
    ELSE 10

CalculateOpportunityScore_Unclamped(kw) ==   \* the final min(base_score, 1.0) left out
    LET base_score == 40000 * SearchVolumeNorm(kw)
                      + (300000 - 6000 * Min(kw.competition, 50))
                      + 30 * Min(kw.suggested_bid, 10000)
    IN IF kw.commercial THEN (base_score * 12) \div 10 ELSE base_score

CalculateOpportunityScore_Penalty(kw) ==   \* commercial terms multiplied by 0.8, not 1.2
    LET base_score == 40000 * SearchVolumeNorm(kw)
                      + (300000 - 6000 * Min(kw.competition, 50))
                      + 30 * Min(kw.suggested_bid, 10000)
    IN Min(IF kw.commercial THEN (base_score * 8) \div 10 ELSE base_score, 1000000)

CalculateOpportunityScore_CompetitionFifth(kw) ==   \* competition weighted 0.2, not 0.3
    LET base_score == 40000 * SearchVolumeNorm(kw)
                      + (200000 - 4000 * Min(kw.competition, 50))
                      + 30 * Min(kw.suggested_bid, 10000)
    IN Min(IF kw.commercial THEN (base_score * 12) \div 10 ELSE base_score, 1000000)

CalculateOpportunityScore(kw) ==
    LET competition_norm == Min(kw.competition, 50)           \* min(competition/5, 1) * 50
        bid_norm == Min(kw.suggested_bid, 10000)              \* min(bid/100, 1) * 10000
        base_score == 40000 * SearchVolumeNorm(kw)
                      + (300000 - 6000 * competition_norm)
                      + 30 * bid_norm
        boosted == IF kw.commercial THEN (base_score * 12) \div 10 ELSE base_score
    IN Min(boosted, 1000000)

PassesFilter_BidUnchecked(kw) ==   \* the suggested-bid test left out
    /\ ~(kw.avg_monthly_searches < 50)
    /\ ~(kw.words > 6)
    /\ ~(kw.chars <= 1)

(* KeywordProcessor._filter_keywords *)
PassesFilter(kw) ==
    /\ ~(kw.avg_monthly_searches < 50)
    /\ ~(kw.suggested_bid <= 0)
    /\ ~(kw.words > 6)
    /\ ~(kw.chars <= 1)

FilterKeywords(keywords) == SelectSeq(keywords, PassesFilter)

ScoreOrZero(kw) == IF IsNone(kw.opportunity_score) THEN 0 ELSE Get(kw.opportunity_score)

(* sorted(..., key, reverse=True): stable, descending *)
SortedDesc(s, key(_)) ==
    LET n == Len(s)
        \* the place of s[i]: after every larger key, and after the equal keys before it
        place(i) == 1 + Cardinality({j \in 1..n : \/ key(s[j]) > key(s[i])
                                                  \/ key(s[j]) = key(s[i]) /\ j < i})
    IN [p \in 1..n |-> s[CHOOSE i \in 1..n : place(i) = p]]

MaxKeywords == 150
ScoreThreshold == 150000

Prefix(s, n) == SubSeq(s, 1, Min(n, Len(s)))

ProcessKeywords_Unsorted(raw) ==   \* the first max_keywords kept in input order
    LET filtered == FilterKeywords(raw)
        scored == [i \in 1..Len(filtered) |->
                     [filtered[i] EXCEPT !.opportunity_score =
                          Some(CalculateOpportunityScore(filtered[i]))]]
        kept == SelectSeq(scored, LAMBDA kw : Get(kw.opportunity_score) >= ScoreThreshold)
    IN Prefix(kept, MaxKeywords)

ProcessKeywords_NoThreshold(raw) ==   \* every scored keyword kept
    LET filtered == FilterKeywords(raw)
        scored == [i \in 1..Len(filtered) |->
                     [filtered[i] EXCEPT !.opportunity_score =
                          Some(CalculateOpportunityScore(filtered[i]))]]
    IN Prefix(SortedDesc(scored, ScoreOrZero), MaxKeywords)

(* KeywordProcessor.__call__, lines 101-155: the value of raw_keywords it returns *)
ProcessKeywords(raw) ==
    LET filtered == FilterKeywords(raw)
        scored == [i \in 1..Len(filtered) |->
                     [filtered[i] EXCEPT !.opportunity_score =
                          Some(CalculateOpportunityScore(filtered[i]))]]
        kept == SelectSeq(scored, LAMBDA kw : Get(kw.opportunity_score) >= ScoreThreshold)
    IN IF filtered = <<>> THEN <<>>
       ELSE Prefix(SortedDesc(kept, ScoreOrZero), MaxKeywords)

----------------------------------------------------------------------------
(* LangGraph: a node returns a partial update; every field it names is      *)
(* overwritten in the state, every other field is kept.                     *)
ApplyUpdate(st, upd) ==
    [f \in DOMAIN st |-> IF f \in DOMAIN upd THEN upd[f] ELSE st[f]]

----------------------------------------------------------------------------
(* Quality gate: WorkflowBuilder._should_recluster *)

AdGroup(id, name, keywords, score) ==
    [id |-> id, name |-> name, keywords |-> keywords, score |-> score]

IsPoorCluster_ScoreAtMost(g) ==   \* a group at exactly the minimum score taken as poor
    Len(g.keywords) < MinGroupSize \/ g.score <= MinGroupScore

IsPoorCluster(g) == Len(g.keywords) < MinGroupSize \/ g.score < MinGroupScore

PoorClusters(ad_groups) == SelectSeq(ad_groups, IsPoorCluster)

(* len(poor_clusters) > len(ad_groups) * 0.3; the float product equals the  *)
(* exact one for every list length up to 400, so integers decide it.        *)
TooManyPoor(npoor, ntotal) == npoor * PoorDen > ntotal * PoorNum

NoEmbeddings_Unchecked(st) == FALSE   \* the embeddings test left out

NoEmbeddings(st) == Len(st.embeddings) = 0

EmptyGroupsDecision_Above(attempts) ==   \* the ceiling compared with > instead of >=
    IF attempts > MaxEmptyAttempts THEN "continue_processing" ELSE "recluster"

EmptyGroupsDecision(attempts) ==
    IF attempts >= MaxEmptyAttempts THEN "continue_processing" ELSE "recluster"

PoorGroupsDecision_ThreeAttempts(attempts) ==   \* the ceiling of the empty case used
    IF attempts >= MaxEmptyAttempts THEN "continue_processing" ELSE "recluster"

PoorGroupsDecision(attempts) ==
    IF attempts >= MaxPoorAttempts THEN "continue_processing" ELSE "recluster"

ShouldRecluster(st) ==
    LET ad_groups == IF IsNone(st.ad_groups) THEN <<>> ELSE Get(st.ad_groups)
    IN IF NoEmbeddings(st) THEN "continue_processing"
       ELSE IF Len(ad_groups) = 0 THEN EmptyGroupsDecision(st.clustering_attempts)
       ELSE IF TooManyPoor(Len(PoorClusters(ad_groups)), Len(ad_groups))
            THEN PoorGroupsDecision(st.clustering_attempts)
       ELSE "continue_processing"

----------------------------------------------------------------------------
(* Cluster Builder: ClusteringAgent.__call__ *)

Embedding(k, n) == [keyword |-> k, vlen |-> n]

(* np.array(list of vectors).ndim: 2 when all vectors have one length *)
Ndim(embeddings) ==
    IF \A i, j \in DOMAIN embeddings : embeddings[i].vlen = embeddings[j].vlen
    THEN 2 ELSE 1

(* What HDBSCAN(min_cluster_size=2).fit_predict can label n points: -1 is   *)
(* noise, clusters are numbered from 0 and have at least two members.       *)
Labelings(n) ==
    { l \in [1..n -> -1..(n \div MinClusterSize - 1)] :
        \A c \in 0..(n \div MinClusterSize - 1) :
            (\E i \in 1..n : l[i] = c) =>
                /\ Cardinality({i \in 1..n : l[i] = c}) >= MinClusterSize
                /\ \A b \in 0..c : \E i \in 1..n : l[i] = b }

NumClusters(labels) == Cardinality({labels[i] : i \in DOMAIN labels} \ {-1})

ProbMeans == {65, 100}   \* mean membership probability of a cluster, hundredths

(* One run of the density clustering: a fault, or labels with, per cluster, *)
(* the mean of probabilities_ (a fitted clusterer always has them; NoneV    *)
(* stands for a read that fails).                                           *)
HdbscanOutcomes(n) ==
    {[fault |-> TRUE, labels |-> <<>>, probs |-> <<>>]} \cup
    UNION { { [fault |-> FALSE, labels |-> l, probs |-> p] :
                p \in [1..NumClusters(l) -> {Some(m) : m \in ProbMeans}] } :
            l \in Labelings(n) }

NameReplies == {Some("Running Shoes"), Some(""), NoneV}   \* NoneV: the call raises

TermInfo(term) == CHOOSE r \in Range(Catalog \o ExtraTerms) : r.keyword = term

(* FallbackNaming.generate_group_name on the catalog's terms *)
FallbackName(keywords) ==
    IF keywords = <<>> THEN "Unnamed Group"
    ELSE LET base == keywords[1]
         IN CASE base = "buy shoes" -> "Purchase Intent"
              [] base = "shoes review" -> "Research Intent"
              [] base = "top sneakers" -> "Research Intent"
              [] base = "cheap shoes" -> "Price Focused"
              [] OTHER -> IF TermInfo(base).words > 1 THEN "Shoes Keywords"
                          ELSE "X Group"

(* ClusteringAgent._generate_group_name *)
GenerateGroupName(keywords, reply) ==
    IF keywords = <<>> THEN "Unnamed Group"
    ELSE IF IsNone(reply) THEN FallbackName(keywords)
    ELSE Get(reply)

KeywordIds(embeddings) == [i \in DOMAIN embeddings |-> embeddings[i].keyword]

SimpleGroups_OneGroup(embeddings) ==   \* the few keywords put into one group together
    <<AdGroup("group_0", "Keywords Group 1", KeywordIds(embeddings), SimpleScore)>>

(* lines 37-53 *)
SimpleGroups(embeddings) ==
    [i \in DOMAIN embeddings |->
        AdGroup("group_" \o ToString(i - 1), "Keywords Group " \o ToString(i),
                <<embeddings[i].keyword>>, SimpleScore)]

HdbscanFaultUpdate_SimpleScore(st) ==   \* the fallback groups given the small-input score
    [ad_groups |-> Some([i \in DOMAIN st.embeddings |->
        AdGroup("fallback_group_" \o ToString(i - 1), "Keyword Group " \o ToString(i),
                <<st.embeddings[i].keyword>>, SimpleScore)])]

(* lines 74-86: what the handler returns when fit_predict raises *)
HdbscanFaultUpdate(st) ==
    [ad_groups |-> Some([i \in DOMAIN st.embeddings |->
        AdGroup("fallback_group_" \o ToString(i - 1), "Keyword Group " \o ToString(i),
                <<st.embeddings[i].keyword>>, FallbackScore)])]

(* lines 91-102 *)
NoiseGroups(keyword_ids, labels) ==
    LET noise_indices == SelectIdx(Len(labels), LAMBDA i : labels[i] = -1)
    IN [i \in DOMAIN noise_indices |->
          AdGroup("noise_group_" \o ToString(i - 1), "Individual Keywords " \o ToString(i),
                  <<keyword_ids[noise_indices[i]]>>, NoiseScore)]

(* lines 104-131 *)
ClusterGroups(keyword_ids, hd, reply) ==
    [c \in 1..NumClusters(hd.labels) |->
        LET cluster_indices == SelectIdx(Len(hd.labels), LAMBDA i : hd.labels[i] = c - 1)
            cluster_keywords == [i \in DOMAIN cluster_indices |->
                                    keyword_ids[cluster_indices[i]]]
            score == IF c \in DOMAIN hd.probs /\ ~IsNone(hd.probs[c])
                     THEN Get(hd.probs[c]) ELSE DefaultProbScore
        IN AdGroup("group_" \o ToString(c - 1), GenerateGroupName(cluster_keywords, reply),
                   cluster_keywords, score)]

(* lines 133-141 *)
EnsureOneGroup(ad_groups, keyword_ids) ==
    IF ad_groups = <<>> /\ keyword_ids # <<>>
    THEN <<AdGroup("default_group", "All Keywords", keyword_ids, FallbackScore)>>
    ELSE ad_groups

(* lines 30, 38, 58: fit_predict is reached with 3 or more vectors of one length *)
FitPredictCalled(st) ==
    /\ Len(st.embeddings) >= SmallInput
    /\ Ndim(st.embeddings) = 2

NotFitted == [called |-> FALSE, fault |-> FALSE, labels |-> <<>>, naming |-> "unused"]

(* what the naming collaborator did: raised, answered "", or answered a name *)
ReplyKind(reply) == IF IsNone(reply) THEN "fault"
                    ELSE IF Get(reply) = "" THEN "empty" ELSE "name"

ClusterKeywords_Merge(st, hd, reply) ==   \* new groups added to those of earlier passes
    LET counted(groups) == [ad_groups |-> Some((IF IsNone(st.ad_groups) THEN <<>> ELSE Get(st.ad_groups))
                                                 \o groups),
                            clustering_attempts |-> st.clustering_attempts + 1]
        keyword_ids == KeywordIds(st.embeddings)
    IN IF Len(st.embeddings) = 0 THEN counted(<<>>)
       ELSE IF Len(st.embeddings) < SmallInput THEN counted(SimpleGroups(st.embeddings))
       ELSE IF Ndim(st.embeddings) # 2 THEN counted(<<>>)
       ELSE IF hd.fault THEN HdbscanFaultUpdate(st)
       ELSE counted(EnsureOneGroup(NoiseGroups(keyword_ids, hd.labels)
                                   \o ClusterGroups(keyword_ids, hd, reply),
                                   keyword_ids))

(* The update ClusteringAgent.__call__ returns, given what fit_predict and  *)
(* the naming collaborator answer.                                          *)
ClusterKeywords(st, hd, reply) ==
    LET counted(groups) == [ad_groups |-> Some(groups),
                            clustering_attempts |-> st.clustering_attempts + 1]
        keyword_ids == KeywordIds(st.embeddings)
    IN IF Len(st.embeddings) = 0 THEN counted(<<>>)
       ELSE IF Len(st.embeddings) < SmallInput THEN counted(SimpleGroups(st.embeddings))
       ELSE IF Ndim(st.embeddings) # 2 THEN counted(<<>>)
       ELSE IF hd.fault THEN HdbscanFaultUpdate(st)
       ELSE counted(EnsureOneGroup(NoiseGroups(keyword_ids, hd.labels)
                                   \o ClusterGroups(keyword_ids, hd, reply),
                                   keyword_ids))

----------------------------------------------------------------------------
(* The other stages: the update each returns, given its collaborators' answers *)

Request == [brand_url |-> "http://brand", competitor_urls |-> <<>>,
            monthly_budget |-> 1000, target_roas |-> 3]

(* WorkflowBuilder.execute_workflow, lines 160-173 *)
InitialState(request, job_id) ==
    [initial_request |-> request, job_id |-> job_id, error_log |-> <<>>,
     clustering_attempts |-> 0,
     brand_analysis |-> NoneV, competitor_analysis |-> NoneV,
     seed_keywords |-> NoneV, raw_keywords |-> NoneV, enriched_keywords |-> NoneV,
     embeddings |-> <<>>, ad_groups |-> NoneV, campaigns |-> NoneV,
     final_report |-> NoneV]

(* WebsiteAnalyzer.__call__: scraping and analysis faults are caught inside *)
(* and leave brand_analysis None; nothing is logged.                        *)
BrandAnalyses == {NoneV, Some([url |-> "http://brand"])}

AnalyzeUpdate(st, brand) ==
    [brand_analysis |-> brand,
     competitor_analysis |-> Some([i \in DOMAIN st.initial_request.competitor_urls |->
                                      [url |-> st.initial_request.competitor_urls[i]]])]

(* KeywordGenerator.__call__: the parsed reply becomes seed_keywords *)
SeedReplies == {<<>>, <<"shoes">>}

SeedUpdate(st, seeds) == [seed_keywords |-> Some(seeds)]

(* WorkflowBuilder._fetch_keywords; fetched is NoneV when the fetch raises *)
FetchUpdate(st, fetched) ==
    IF FalsyList(st.seed_keywords)
    THEN [error_log |-> Append(st.error_log, "No seed keywords were generated to fetch.")]
    ELSE IF IsNone(fetched)
    THEN [error_log |-> Append(st.error_log, "Keyword fetch error")]
    ELSE [raw_keywords |-> fetched]

ProcessUpdate_Replace(st) ==   \* handle_error returning a log of the new entry alone
    IF FalsyList(st.raw_keywords)
    THEN [error_log |-> <<"No keywords to process">>]
    ELSE [raw_keywords |-> Some(ProcessKeywords(Get(st.raw_keywords)))]

(* KeywordProcessor.__call__ *)
ProcessUpdate(st) ==
    IF FalsyList(st.raw_keywords)
    THEN [error_log |-> Append(st.error_log, "No keywords to process")]
    ELSE [raw_keywords |-> Some(ProcessKeywords(Get(st.raw_keywords)))]

(* OpenAIEnrichmentAgent.__call__ *)
EnrichBatchSize == 20

EnrichedKeyword(k, intent, confidence) ==
    [keyword_id |-> k, intent |-> intent, confidence |-> confidence]

EnrichBatch(st) == Prefix(SortedDesc(Get(st.raw_keywords), ScoreOrZero), EnrichBatchSize)

(* What the model can answer for a batch: a reply that is not JSON, a call  *)
(* that raises, one entry per keyword of the batch, or entries for all but  *)
(* the last keyword of the batch.                                           *)
EnrichReplies(batch) ==
    {[kind |-> "json_error", items |-> <<>>], [kind |-> "api_error", items |-> <<>>],
     [kind |-> "ok",
      items |-> [i \in 1..Len(batch) |-> [keyword |-> batch[i].keyword, intent |-> "Brand"]]]}
    \cup
    { [kind |-> "ok",
       items |-> [i \in 1..(Len(batch) - 1) |->
                    [keyword |-> batch[i].keyword, intent |-> "informational"]]] :
      x \in {n \in {Len(batch)} : n > 0} }

EnrichUpdate(st, reply) ==
    IF FalsyList(st.raw_keywords) THEN [enriched_keywords |-> Some(<<>>)]
    ELSE LET batch == EnrichBatch(st)
             fallback(conf) == [i \in DOMAIN batch |->
                                   EnrichedKeyword(batch[i].keyword, "commercial", conf)]
         IN [enriched_keywords |-> Some(
               CASE reply.kind = "json_error" -> fallback(70)
                 [] reply.kind = "api_error" -> fallback(60)
                 [] OTHER -> [i \in DOMAIN reply.items |->
                                EnrichedKeyword(reply.items[i].keyword,
                                                reply.items[i].intent, 75)])]

(* VectorManager.__call__ when nothing raises; ragged: the vectors do not   *)
(* all have one length.                                                     *)
VectorUpdate(st, ragged) ==
    IF FalsyList(st.raw_keywords)
    THEN [error_log |-> Append(st.error_log, "No keywords to vectorize")]
    ELSE [embeddings |-> [i \in DOMAIN Get(st.raw_keywords) |->
             Embedding(Get(st.raw_keywords)[i].keyword,
                       IF ragged /\ i = 1 THEN Dim + 1 ELSE Dim)]]

----------------------------------------------------------------------------
(* Budget & Bid Allocator: CampaignDesignerAgent *)

DefaultTargetCpa == 50
ShoppingTop == 20
ThemeKeywords == 10

(* round(n / d, 0), halves to the even neighbour, for n >= 0 and d > 0 *)
RoundHalfEven(n, d) ==
    LET q == n \div d
        r == n % d
    IN IF 2 * r < d THEN q
       ELSE IF 2 * r > d THEN q + 1
       ELSE IF q % 2 = 0 THEN q ELSE q + 1

(* str.lower() on the intents the enrichment can carry *)
Lower(intent) ==
    CASE intent \in {"Brand", "BRAND"} -> "brand"
      [] intent = "Competitor" -> "competitor"
      [] intent = "Transactional" -> "transactional"
      [] intent = "COMMERCIAL" -> "commercial"
      [] intent = "High_Intent" -> "high_intent"
      [] intent = "Informational" -> "informational"
      [] OTHER -> intent

GetMatchTypes_CaseSensitive(intent) ==   \* the intent compared as spelled
    IF intent = "brand" THEN <<"EXACT", "PHRASE">>
    ELSE IF intent = "competitor" THEN <<"PHRASE", "EXACT">>
    ELSE IF intent \in {"transactional", "commercial", "high_intent"} THEN <<"BROAD", "PHRASE">>
    ELSE <<"PHRASE">>

(* CampaignDesignerAgent._get_match_types *)
GetMatchTypes(intent) ==
    LET i == Lower(intent)
    IN IF i = "brand" THEN <<"EXACT", "PHRASE">>
       ELSE IF i = "competitor" THEN <<"PHRASE", "EXACT">>
       ELSE IF i \in {"transactional", "commercial", "high_intent"} THEN <<"BROAD", "PHRASE">>
       ELSE <<"PHRASE">>

TargetCpa(st) ==
    IF "target_cpa" \in DOMAIN st.initial_request
    THEN st.initial_request.target_cpa ELSE DefaultTargetCpa

(* base_bid * bid_multiplier * 0.8 and * 1.2, rounded to cents:             *)
(* cpa * 0.02 * (1 + competition * 0.2) * factor                            *)
BidLow_Wide(target_cpa, competition) ==   \* the conservative factor taken as 1.6
    RoundHalfEven(target_cpa * (50 + competition) * 8, 125)

BidLow(target_cpa, competition) == RoundHalfEven(target_cpa * (50 + competition) * 4, 125)
BidHigh(target_cpa, competition) == RoundHalfEven(target_cpa * (50 + competition) * 6, 125)

Lookup(seq, field, key) ==   \* dict built from a list: the last entry with the key wins
    LET hits == SelectIdx(Len(seq), LAMBDA i : seq[i][field] = key)
    IN IF hits = <<>> THEN NoneV ELSE Some(seq[hits[Len(hits)]])

ListOf(o) == IF IsNone(o) THEN <<>> ELSE Get(o)

(* the keywords of one ad group that have both enrichment and raw data *)
Priced(st, group) ==
    SelectSeq(group.keywords,
              LAMBDA k : /\ ~IsNone(Lookup(ListOf(st.enriched_keywords), "keyword_id", k))
                         /\ ~IsNone(Lookup(ListOf(st.raw_keywords), "keyword", k)))

AdGroupBids_AllMembers(st, group) ==   \* a Bid for every member, data missing or not
    [ad_group_id |-> group.id, ad_group_name |-> group.name,
     target_cpa |-> TargetCpa(st),
     keywords |-> [i \in DOMAIN group.keywords |->
         LET enriched == Lookup(ListOf(st.enriched_keywords), "keyword_id", group.keywords[i])
             raw == Lookup(ListOf(st.raw_keywords), "keyword", group.keywords[i])
             competition == IF IsNone(raw) THEN 0 ELSE Get(raw).competition
         IN [keyword |-> group.keywords[i],
             match_types |-> IF IsNone(enriched) THEN <<"PHRASE">>
                             ELSE GetMatchTypes(Get(enriched).intent),
             bid_low |-> BidLow(TargetCpa(st), competition),
             bid_high |-> BidHigh(TargetCpa(st), competition),
             target_cpa |-> TargetCpa(st)]]]

(* CampaignDesignerAgent._create_search_campaign, lines 73-118 *)
AdGroupBids(st, group) ==
    LET ks == Priced(st, group)
    IN [ad_group_id |-> group.id, ad_group_name |-> group.name,
        target_cpa |-> TargetCpa(st),
        keywords |-> [i \in DOMAIN ks |->
            LET enriched == Get(Lookup(ListOf(st.enriched_keywords), "keyword_id", ks[i]))
                raw == Get(Lookup(ListOf(st.raw_keywords), "keyword", ks[i]))
            IN [keyword |-> ks[i],
                match_types |-> GetMatchTypes(enriched.intent),
                bid_low |-> BidLow(TargetCpa(st), raw.competition),
                bid_high |-> BidHigh(TargetCpa(st), raw.competition),
                target_cpa |-> TargetCpa(st)]]]

Campaign(type, budget, st, ad_groups) ==
    [campaign_type |-> type, budget |-> budget,
     target_roas |-> st.initial_request.target_roas, ad_groups |-> ad_groups]

(* _format_search_campaign *)
FormatSearchCampaign(campaign, st) ==
    LET groups == ListOf(st.ad_groups)
        shown == SelectSeq(groups, LAMBDA g : Priced(st, g) # <<>>)
    IN [budget |-> campaign.budget, target_roas |-> campaign.target_roas,
        ad_groups |-> [i \in DOMAIN shown |->
            [name |-> shown[i].name,
             keywords |-> [j \in DOMAIN Priced(st, shown[i]) |->
                 LET k == Priced(st, shown[i])[j]
                     enriched == Get(Lookup(ListOf(st.enriched_keywords), "keyword_id", k))
                     raw == Get(Lookup(ListOf(st.raw_keywords), "keyword", k))
                 IN [keyword |-> k, intent |-> enriched.intent,
                     search_volume |-> raw.avg_monthly_searches,
                     suggested_bid |-> raw.suggested_bid,
                     match_types |-> GetMatchTypes(enriched.intent)]]]]]

Searches(kw) == kw.avg_monthly_searches

FormatShoppingCampaign_InputOrder(campaign, st) ==   \* the first 20 keywords, unranked
    LET top_keywords == Prefix(ListOf(st.raw_keywords), ShoppingTop)
    IN [budget |-> campaign.budget, target_roas |-> campaign.target_roas,
        product_bids |-> [i \in DOMAIN top_keywords |->
            [keyword |-> top_keywords[i].keyword,
             search_volume |-> top_keywords[i].avg_monthly_searches,
             competition |-> top_keywords[i].competition,
             target_cpa |-> DefaultTargetCpa,
             computed_cpc |-> 100 + 3 * top_keywords[i].competition]]]

(* _format_shopping_campaign *)
FormatShoppingCampaign(campaign, st) ==
    LET top_keywords == Prefix(SortedDesc(ListOf(st.raw_keywords), Searches), ShoppingTop)
    IN [budget |-> campaign.budget, target_roas |-> campaign.target_roas,
        product_bids |-> [i \in DOMAIN top_keywords |->
            [keyword |-> top_keywords[i].keyword,
             search_volume |-> top_keywords[i].avg_monthly_searches,
             competition |-> top_keywords[i].competition,
             target_cpa |-> DefaultTargetCpa,
             computed_cpc |-> 100 + 3 * top_keywords[i].competition]]]

DefaultThemes ==
    << [name |-> "Brand Awareness Theme", keywords |-> <<>>],
       [name |-> "Product Category Theme", keywords |-> <<>>] >>

(* _format_pmax_campaign *)
FormatPmaxCampaign(campaign, st) ==
    LET groups == ListOf(st.ad_groups)
        themes == [i \in DOMAIN groups |->
                      [name |-> groups[i].name \o " Theme",
                       keywords |-> Prefix(groups[i].keywords, ThemeKeywords)]]
    IN [budget |-> campaign.budget, target_roas |-> campaign.target_roas,
        themes |-> IF themes = <<>> THEN DefaultThemes ELSE themes]

(* _count_total_keywords *)
CountTotalKeywords(st) ==
    SeqSum([i \in DOMAIN ListOf(st.ad_groups) |-> Len(ListOf(st.ad_groups)[i].keywords)])

(* CampaignDesignerAgent.__call__; budgets are in tenths of a currency unit *)
CampaignUpdate(st) ==
    IF FalsyList(st.ad_groups)
    THEN [campaigns |-> Some(<<>>),
          final_report |-> Some([summary |-> "No ad groups to process."])]
    ELSE LET total_budget == st.initial_request.monthly_budget
             search_budget == total_budget * 5
             shopping_budget == total_budget * 3
             pmax_budget == total_budget * 2
             groups == Get(st.ad_groups)
             search_campaign == Campaign("search", search_budget, st,
                                    [i \in DOMAIN groups |-> AdGroupBids(st, groups[i])])
             shopping_campaign == Campaign("shopping", shopping_budget, st, <<>>)
             pmax_campaign == Campaign("pmax", pmax_budget, st, <<>>)
         IN [campaigns |-> Some(<<search_campaign, shopping_campaign, pmax_campaign>>),
             final_report |-> Some(
                [summary |-> "Generated 3 campaigns with " \o ToString(CountTotalKeywords(st))
                             \o " keywords.",
                 search_campaign |-> FormatSearchCampaign(search_campaign, st),
                 shopping_campaign |-> FormatShoppingCampaign(shopping_campaign, st),
                 pmax_campaign |-> FormatPmaxCampaign(pmax_campaign, st),
                 budget_allocation |-> [total_budget |-> total_budget * 10,
                                        search_budget |-> search_budget,
                                        shopping_budget |-> shopping_budget,
                                        pmax_budget |-> pmax_budget]])]

----------------------------------------------------------------------------
(* The graph of WorkflowBuilder.create_workflow and its execution *)

Nodes == {"analyze_websites", "generate_seed_keywords", "fetch_keywords",
          "process_keywords", "enrich_keywords", "manage_vectors",
          "cluster_keywords", "generate_campaigns"}

EntryPoint == "analyze_websites"

(* add_edge; the conditional edge of cluster_keywords leads to the gate *)
Edge(node) ==
    CASE node = "analyze_websites" -> "generate_seed_keywords"
      [] node = "generate_seed_keywords" -> "fetch_keywords"
      [] node = "fetch_keywords" -> "process_keywords"
      [] node = "process_keywords" -> "enrich_keywords"
      [] node = "enrich_keywords" -> "manage_vectors"
      [] node = "manage_vectors" -> "cluster_keywords"
      [] node = "cluster_keywords" -> "should_recluster"
      [] node = "generate_campaigns" -> "END"

ConditionalEdge_ToVectors(decision) ==   \* recluster looping back one stage too far
    CASE decision = "recluster" -> "manage_vectors"
      [] decision = "continue_processing" -> "generate_campaigns"

(* add_conditional_edges: the mapping from the gate's answer to the next node *)
ConditionalEdge(decision) ==
    CASE decision = "recluster" -> "cluster_keywords"
      [] decision = "continue_processing" -> "generate_campaigns"

WithinLimit_Inclusive(n) == n <= RecursionLimit   \* one super-step too many

(* config={"recursion_limit": 50}: a super-step runs only below the limit *)
WithinLimit(n) == n < RecursionLimit

Dispatch(node) ==
    /\ pc = node
    /\ WithinLimit(steps)
    /\ steps' = steps + 1
    /\ trace' = Append(trace, node)

OutputSlots == {"seed_keywords", "raw_keywords", "enriched_keywords", "embeddings",
                "ad_groups", "campaigns", "final_report"}

NoWriters == [slot \in OutputSlots |-> {}]

Returns(node, upd) ==
    /\ state' = ApplyUpdate(state, upd)
    /\ pc' = Edge(node)
    /\ exc' = exc
    /\ writers' = [slot \in OutputSlots |->
                      IF slot \in DOMAIN upd THEN writers[slot] \cup {node}
                      ELSE writers[slot]]

Raises(msg) ==
    /\ pc' = "raised"
    /\ exc' = Some(msg)
    /\ state' = state
    /\ writers' = writers

(* workflow.ainvoke(initial_state, ...) of the run of task 1 *)
Invoke ==
    /\ pc = "idle"
    /\ Len(tasks) >= 1
    /\ tasks[1].at = "awaiting"
    /\ state' = InitialState(tasks[1].request, "job_" \o ToString(clock))
    /\ pc' = EntryPoint
    /\ UNCHANGED <<steps, trace, exc, gate, clusterer, processed, writers, jobVars>>

AnalyzeWebsites ==
    /\ Dispatch("analyze_websites")
    /\ \E brand \in BrandAnalyses :
          Returns("analyze_websites", AnalyzeUpdate(state, brand))
    /\ UNCHANGED <<gate, clusterer, processed, jobVars>>

GenerateSeedKeywords ==
    /\ Dispatch("generate_seed_keywords")
    /\ \/ \E seeds \in SeedReplies :
             Returns("generate_seed_keywords", SeedUpdate(state, seeds))
       \/ Raises("seed keyword generator fault")
    /\ UNCHANGED <<gate, clusterer, processed, jobVars>>

FetchKeywords ==
    /\ Dispatch("fetch_keywords")
    /\ \E fetched \in {NoneV} \cup {Some(r) : r \in SourceResults} :
          Returns("fetch_keywords", FetchUpdate(state, fetched))
    /\ UNCHANGED <<gate, clusterer, processed, jobVars>>

ProcessKeywordsStage ==
    /\ Dispatch("process_keywords")
    /\ Returns("process_keywords", ProcessUpdate(state))
    /\ processed' = Some([raw_keywords |-> state.raw_keywords,
                          error_log |-> state.error_log])
    /\ UNCHANGED <<gate, clusterer, jobVars>>

EnrichKeywords ==
    /\ Dispatch("enrich_keywords")
    /\ \E reply \in EnrichReplies(IF FalsyList(state.raw_keywords) THEN <<>>
                                  ELSE EnrichBatch(state)) :
          Returns("enrich_keywords", EnrichUpdate(state, reply))
    /\ UNCHANGED <<gate, clusterer, processed, jobVars>>

ManageVectors ==
    /\ Dispatch("manage_vectors")
    /\ \/ \E ragged \in BOOLEAN :
             Returns("manage_vectors", VectorUpdate(state, ragged))
       \/ /\ ~FalsyList(state.raw_keywords)
          /\ Raises("vector store fault")
    /\ UNCHANGED <<gate, clusterer, processed, jobVars>>

ClusterKeywordsStage ==
    /\ Dispatch("cluster_keywords")
    /\ \E hd \in HdbscanOutcomes(Len(state.embeddings)), reply \in NameReplies :
          /\ Returns("cluster_keywords", ClusterKeywords(state, hd, reply))
          /\ clusterer' = IF FitPredictCalled(state)
                           THEN [called |-> TRUE, fault |-> hd.fault, labels |-> hd.labels,
                                 naming |-> IF ~hd.fault /\ NumClusters(hd.labels) > 0
                                            THEN ReplyKind(reply) ELSE "unused"]
                           ELSE NotFitted
    /\ UNCHANGED <<gate, processed, jobVars>>

(* the conditional edge after cluster_keywords *)
QualityGate ==
    /\ pc = "should_recluster"
    /\ gate' = [evals |-> gate.evals + 1,
                prev_attempts |-> gate.attempts,
                attempts |-> state.clustering_attempts,
                decision |-> ShouldRecluster(state),
                \* history: no pass so far had a clustering fault, and every
                \* pass returned a non-empty list with more than 30% poor groups
                all_poor |-> /\ gate.all_poor
                             /\ ~clusterer.fault
                             /\ ~FalsyList(state.ad_groups)
                             /\ TooManyPoor(Len(PoorClusters(Get(state.ad_groups))),
                                            Len(Get(state.ad_groups)))]
    /\ pc' = ConditionalEdge(ShouldRecluster(state))
    /\ UNCHANGED <<state, steps, trace, exc, clusterer, processed, writers, jobVars>>

GenerateCampaigns ==
    /\ Dispatch("generate_campaigns")
    /\ Returns("generate_campaigns", CampaignUpdate(state))
    /\ UNCHANGED <<gate, clusterer, processed, jobVars>>

(* GraphRecursionError: a node is due and the limit is used up *)
StepCeiling ==
    /\ pc \in Nodes
    /\ ~WithinLimit(steps)
    /\ Raises("GraphRecursionError")
    /\ UNCHANGED <<steps, trace, gate, clusterer, processed, jobVars>>

----------------------------------------------------------------------------
(* WorkflowBuilder.execute_workflow, lines 175-221: what it returns *)
ExecuteResult(st, raised) ==
    IF IsNone(raised)
    THEN [status |-> "success", job_id |-> st.job_id,
          results |-> st.final_report, errors |-> st.error_log]
    ELSE [status |-> "error", error |-> Get(raised), job_id |-> st.job_id]

ManagerResult_SummaryFails(result_dict) ==   \* a report without campaigns taken as no report
    IF result_dict.status = "error"
    THEN [status |-> "failed", error |-> result_dict.error]
    ELSE IF IsNone(result_dict.results)
            \/ "search_campaign" \notin DOMAIN Get(result_dict.results)
    THEN [status |-> "failed",
          error |-> <<"Workflow finished but produced no report.">> \o result_dict.errors]
    ELSE LET final_report == Get(result_dict.results)
         IN [status |-> "success",
             results |-> [search_campaign |-> final_report.search_campaign,
                          shopping_campaign |-> final_report.shopping_campaign,
                          pmax_campaign |-> final_report.pmax_campaign]]

(* WorkflowManager.execute_workflow *)
ManagerResult(result_dict) ==
    IF result_dict.status = "error"
    THEN [status |-> "failed", error |-> result_dict.error]
    ELSE IF IsNone(result_dict.results)
    THEN [status |-> "failed",
          error |-> <<"Workflow finished but produced no report.">> \o result_dict.errors]
    ELSE LET final_report == Get(result_dict.results)
             get(key, default) == IF key \in DOMAIN final_report
                                  THEN final_report[key] ELSE default
         IN [status |-> "success",
             results |-> [search_campaign |-> get("search_campaign", [ad_groups |-> <<>>]),
                          shopping_campaign |-> get("shopping_campaign",
                                                    [product_bids |-> <<>>]),
                          pmax_campaign |-> get("pmax_campaign", [themes |-> <<>>])]]

----------------------------------------------------------------------------
(* The job registry and the background task: src/main.py *)

JobStatus(job_id) ==
    [job_id |-> job_id, status |-> "pending", progress |-> 0,
     results |-> NoneV, errors |-> <<>>]

(* job_{datetime.now().strftime('%Y%m%d_%H%M%S')}: one id per clock second *)
JobId(now) == "job_" \o ToString(now)

Put(registry, job_id, entry) ==
    [j \in DOMAIN registry \cup {job_id} |-> IF j = job_id THEN entry ELSE registry[j]]

(* POST /api/v1/generate-plan *)
GeneratePlan(limit) ==
    /\ Len(tasks) < limit
    /\ job_statuses' = Put(job_statuses, JobId(clock), JobStatus(JobId(clock)))
    /\ tasks' = Append(tasks, [job_id |-> JobId(clock), request |-> Request,
                               at |-> "queued", result |-> NoneV])
    /\ UNCHANGED <<clock, pipeVars>>

Tick ==
    /\ clock < MaxClock
    /\ clock' = clock + 1
    /\ UNCHANGED <<job_statuses, tasks, pipeVars>>

(* execute_workflow_task, lines 98-104: up to the await *)
TaskStart(t) ==
    /\ t \in DOMAIN tasks
    /\ tasks[t].at = "queued"
    /\ job_statuses' = [job_statuses EXCEPT ![tasks[t].job_id].status = "running",
                                            ![tasks[t].job_id].progress = 1]
    /\ tasks' = [tasks EXCEPT ![t].at = "awaiting"]
    /\ UNCHANGED <<clock, pipeVars>>

(* the run of task 1 is over: workflow_manager.execute_workflow returns *)
WorkflowReturn ==
    /\ pc \in {"END", "raised"}
    /\ tasks[1].at = "awaiting"
    /\ tasks' = [tasks EXCEPT ![1].at = "returned",
                              ![1].result = Some(ManagerResult(ExecuteResult(state, exc)))]
    /\ pc' = "returned"
    /\ UNCHANGED <<clock, job_statuses, state, steps, trace, exc, gate, clusterer,
                   processed, writers>>

(* execute_workflow_task, lines 106-117: after the await *)
TaskFinish(t) ==
    /\ t \in DOMAIN tasks
    /\ tasks[t].at = "returned"
    /\ LET result == Get(tasks[t].result)
           job_id == tasks[t].job_id
       IN job_statuses' =
            IF result.status = "success"
            THEN [job_statuses EXCEPT ![job_id].status = "completed",
                                      ![job_id].progress = 10,
                                      ![job_id].results = Some(result.results)]
            ELSE [job_statuses EXCEPT ![job_id].status = "failed",
                                      ![job_id].errors = Append(@, result.error)]
    /\ tasks' = [tasks EXCEPT ![t].at = "done"]
    /\ UNCHANGED <<clock, pipeVars>>

----------------------------------------------------------------------------
(* One job, from its submission to the registry entry it ends with *)

Init ==
    /\ clock = 0
    /\ job_statuses = <<>>
    /\ tasks = <<>>
    /\ state = InitialState(Request, JobId(0))
    /\ pc = "idle"
    /\ steps = 0
    /\ trace = <<>>
    /\ exc = NoneV
    /\ gate = [evals |-> 0, prev_attempts |-> 0, attempts |-> 0, decision |-> "none", all_poor |-> TRUE]
    /\ clusterer = NotFitted
    /\ processed = NoneV
    /\ writers = NoWriters

Next ==
    \/ GeneratePlan(1)
    \/ TaskStart(1)
    \/ Invoke
    \/ AnalyzeWebsites
    \/ GenerateSeedKeywords
    \/ FetchKeywords
    \/ ProcessKeywordsStage
    \/ EnrichKeywords
    \/ ManageVectors
    \/ ClusterKeywordsStage
    \/ QualityGate
    \/ GenerateCampaigns
    \/ StepCeiling
    \/ WorkflowReturn
    \/ TaskFinish(1)

Spec == Init /\ [][Next]_vars

----------------------------------------------------------------------------
(* Several jobs: submissions at any clock second, each with a background    *)
(* task; what a run returns is any answer of WorkflowManager.               *)

WorkflowAnswers ==
    { [status |-> "success",
       results |-> [search_campaign |-> [ad_groups |-> <<>>],
                    shopping_campaign |-> [product_bids |-> <<>>],
                    pmax_campaign |-> [themes |-> <<>>]]],
      [status |-> "failed", error |-> "GraphRecursionError"] }

(* await workflow_manager.execute_workflow(request_data) returns to task t *)
WorkflowOutcome(t) ==
    /\ t \in DOMAIN tasks
    /\ tasks[t].at = "awaiting"
    /\ \E answer \in WorkflowAnswers :
          tasks' = [tasks EXCEPT ![t].at = "returned", ![t].result = Some(answer)]
    /\ UNCHANGED <<clock, job_statuses, pipeVars>>

NextJobs ==
    \/ GeneratePlan(MaxJobs)
    \/ Tick
    \/ \E t \in 1..MaxJobs : TaskStart(t)
    \/ \E t \in 1..MaxJobs : WorkflowOutcome(t)
    \/ \E t \in 1..MaxJobs : TaskFinish(t)

SpecJobs == Init /\ [][NextJobs]_vars

----------------------------------------------------------------------------
(* The quality gate alone, on every ad-group list, embedding map and        *)
(* attempt counter within the bounds.                                       *)

GateGroupKinds ==
    { AdGroup("g", "small", <<"a", "b">>, 80),
      AdGroup("g", "weak", <<"a", "b", "c">>, 69),
      AdGroup("g", "good", <<"a", "b", "c">>, 70) }

GateGroupLists == UNION { [1..n -> GateGroupKinds] : n \in 0..MaxGateGroups }

InitGate ==
    /\ clock = 0
    /\ job_statuses = <<>>
    /\ tasks = <<>>
    /\ \E groups \in {NoneV} \cup {Some(l) : l \in GateGroupLists},
          embeddings \in {<<>>, <<Embedding("a", Dim)>>},
          attempts \in 0..MaxGateAttempts :
          state = [InitialState(Request, JobId(0)) EXCEPT
                      !.ad_groups = groups,
                      !.embeddings = embeddings,
                      !.clustering_attempts = attempts]
    /\ pc = "should_recluster"
    /\ steps = 0
    /\ trace = <<>>
    /\ exc = NoneV
    /\ gate = [evals |-> 0, prev_attempts |-> 0, attempts |-> 0, decision |-> "none", all_poor |-> TRUE]
    /\ clusterer = NotFitted
    /\ processed = NoneV
    /\ writers = NoWriters

NextGate == QualityGate

SpecGate == InitGate /\ [][NextGate]_vars

----------------------------------------------------------------------------
(* One pass of the Cluster Builder alone, on every embedding map within the *)
(* bounds: 0..MaxEmbeddings keyword ids, the vectors of one length or not,  *)
(* and any attempt counter the gate lets a pass start with.                 *)

EmbeddingTerms == [i \in DOMAIN (Catalog \o ExtraTerms) |-> (Catalog \o ExtraTerms)[i].keyword]

EmbeddingMaps ==
    { [i \in 1..n |-> Embedding(EmbeddingTerms[i], IF ragged /\ i = 1 THEN Dim + 1 ELSE Dim)] :
      n \in 0..MaxEmbeddings, ragged \in BOOLEAN }

InitCluster ==
    /\ clock = 0
    /\ job_statuses = <<>>
    /\ tasks = <<>>
    /\ \E embeddings \in EmbeddingMaps, attempts \in 0..(MaxEmptyAttempts - 1) :
          state = [InitialState(Request, JobId(0)) EXCEPT
                      !.embeddings = embeddings,
                      !.clustering_attempts = attempts]
    /\ pc = "cluster_keywords"
    /\ steps = 0
    /\ trace = <<>>
    /\ exc = NoneV
    /\ gate = [evals |-> 0, prev_attempts |-> 0, attempts |-> 0, decision |-> "none", all_poor |-> TRUE]
    /\ clusterer = NotFitted
    /\ processed = NoneV
    /\ writers = NoWriters

NextCluster == ClusterKeywordsStage

SpecCluster == InitCluster /\ [][NextCluster]_vars

----------------------------------------------------------------------------
(* One call of the Keyword Processor alone.  Its input is no list, an empty *)
(* list, any single keyword of a grid around the constants the code tests,  *)
(* such a keyword next to its commercial twin, any list of up to MaxRaw     *)
(* keywords of a small pool, or a long list of max_keywords or more         *)
(* keywords whose scores rise along the list.                               *)

KeywordGrid ==
    { RawKeyword(IF com THEN "buy kw" ELSE "kw", shape[1], shape[2], com, s, comp, bid) :
        shape \in {<<2, 9>>, <<7, 30>>, <<1, 1>>},
        com \in BOOLEAN,
        s \in {49, 50, 100, 101, 1000, 1001, 5000, 5001},
        comp \in {0, 25, 50, 60},
        bid \in {0, 1, 150, 10000, 12000} }

CommercialTwin(kw) == [kw EXCEPT !.keyword = "buy kw", !.commercial = TRUE]

KeywordPool ==
    { RawKeyword("buy shoes",   2,  9, TRUE,  1200, 20, 150),
      RawKeyword("get shoes",   2,  9, FALSE, 1200, 20, 150),
      RawKeyword("cheap shoes", 2, 11, FALSE,   80, 20, 100),
      RawKeyword("rare shoes",  2, 10, FALSE,   50, 50,   1),
      RawKeyword("odd shoes",   2,  9, FALSE,   49, 20, 150),
      RawKeyword("shoes guide", 2, 11, FALSE, 6000,  0, 10000) }

LongRaw(n) == [i \in 1..n |-> RawKeyword("kw" \o ToString(i), 2, 9, FALSE, 200, 20, i)]

ProcessorInputs ==
    {NoneV, Some(<<>>)}
    \cup { Some(<<kw>>) : kw \in KeywordGrid }
    \cup { Some(<<kw, CommercialTwin(kw)>>) : kw \in {g \in KeywordGrid : ~g.commercial} }
    \cup { Some(l) : l \in UNION { [1..n -> KeywordPool] : n \in 2..MaxRaw } }
    \cup { Some(LongRaw(n)) : n \in MaxKeywords..(MaxKeywords + MaxOverflow) }

InitProcess ==
    /\ clock = 0
    /\ job_statuses = <<>>
    /\ tasks = <<>>
    /\ \E raw \in ProcessorInputs :
          state = [InitialState(Request, JobId(0)) EXCEPT !.raw_keywords = raw]
    /\ pc = "process_keywords"
    /\ steps = 0
    /\ trace = <<>>
    /\ exc = NoneV
    /\ gate = [evals |-> 0, prev_attempts |-> 0, attempts |-> 0, decision |-> "none", all_poor |-> TRUE]
    /\ clusterer = NotFitted
    /\ processed = NoneV
    /\ writers = NoWriters

NextProcess == ProcessKeywordsStage

SpecProcess == InitProcess /\ [][NextProcess]_vars

----------------------------------------------------------------------------
(* One call of the Campaign Designer alone: ad groups over up to            *)
(* MaxBidKeywords keyword ids, any subset of the ids with raw data (at one  *)
(* competition value) and any subset with enrichment (of one intent), and a *)
(* request with or without a target CPA.                                    *)

BidIds == SubSeq(EmbeddingTerms, 1, MaxBidKeywords)

Intents == {"brand", "Brand", "BRAND", "competitor", "Competitor", "transactional",
            "commercial", "COMMERCIAL", "high_intent", "informational", "navigational", ""}

Competitions == {0, 25, 50}          \* 0.0, 2.5 and 5.0

TargetCpas == {NoneV, Some(0), Some(73)}

BidGroupLists ==
    { <<>>,
      <<AdGroup("group_0", "Shoes", BidIds, 80)>>,
      <<AdGroup("noise_group_0", "Individual Keywords 1", <<BidIds[1]>>, 60),
        AdGroup("group_0", "Shoes", Tail(BidIds), 100)>> }

RequestWith(cpa) ==
    IF IsNone(cpa) THEN Request
    ELSE [f \in DOMAIN Request \cup {"target_cpa"} |->
             IF f = "target_cpa" THEN Get(cpa) ELSE Request[f]]

InitCampaign ==
    /\ clock = 0
    /\ job_statuses = <<>>
    /\ tasks = <<>>
    /\ \E with_raw \in SUBSET Range(BidIds), competition \in Competitions,
          with_enrichment \in SUBSET Range(BidIds), intent \in Intents,
          cpa \in TargetCpas, groups \in BidGroupLists :
          LET raw_ids == SelectSeq(BidIds, LAMBDA k : k \in with_raw)
              enriched_ids == SelectSeq(BidIds, LAMBDA k : k \in with_enrichment)
          IN state = [InitialState(RequestWith(cpa), JobId(0)) EXCEPT
                 !.raw_keywords = Some([i \in DOMAIN raw_ids |->
                     [TermInfo(raw_ids[i]) EXCEPT !.competition = competition]]),
                 !.enriched_keywords = Some([i \in DOMAIN enriched_ids |->
                     EnrichedKeyword(enriched_ids[i], intent, 75)]),
                 !.ad_groups = Some(groups)]
    /\ pc = "generate_campaigns"
    /\ steps = 0
    /\ trace = <<>>
    /\ exc = NoneV
    /\ gate = [evals |-> 0, prev_attempts |-> 0, attempts |-> 0, decision |-> "none", all_poor |-> TRUE]
    /\ clusterer = NotFitted
    /\ processed = NoneV
    /\ writers = NoWriters

NextCampaign == GenerateCampaigns

SpecCampaign == InitCampaign /\ [][NextCampaign]_vars

----------------------------------------------------------------------------
(* The Campaign Designer over raw keyword lists of every length around the  *)
(* shopping cut: any list without repetition of up to MaxRaw keywords of    *)
(* the catalog and the further terms, or a list of ShoppingTop - 1 to       *)
(* ShoppingTop + MaxOverflow keywords whose search volumes are all          *)
(* different and in no order.                                               *)

ShoppingPool == Range(Catalog) \cup Range(ExtraTerms)

ShuffledRaw(n, r) ==
    [i \in 1..n |-> RawKeyword("kw" \o ToString(i), 2, 9, FALSE,
                               50 + 100 * (((i + r) * 7) % 23), 20, 100)]

ShoppingInputs ==
    { l \in UNION { [1..n -> ShoppingPool] : n \in 0..MaxRaw } :
         \A i, j \in DOMAIN l : i # j => l[i] # l[j] }
    \cup { ShuffledRaw(n, r) : n \in (ShoppingTop - 1)..(ShoppingTop + MaxOverflow),
                               r \in 0..MaxOverflow }

InitShopping ==
    /\ clock = 0
    /\ job_statuses = <<>>
    /\ tasks = <<>>
    /\ \E raw \in ShoppingInputs, groups \in BidGroupLists :
          state = [InitialState(Request, JobId(0)) EXCEPT
                      !.raw_keywords = Some(raw), !.ad_groups = Some(groups)]
    /\ pc = "generate_campaigns"
    /\ steps = 0
    /\ trace = <<>>
    /\ exc = NoneV
    /\ gate = [evals |-> 0, prev_attempts |-> 0, attempts |-> 0, decision |-> "none", all_poor |-> TRUE]
    /\ clusterer = NotFitted
    /\ processed = NoneV
    /\ writers = NoWriters

NextShopping == GenerateCampaigns

SpecShopping == InitShopping /\ [][NextShopping]_vars

----------------------------------------------------------------------------
(* Properties *)

ClusterPasses == Len(SelectSeq(trace, LAMBDA n : n = "cluster_keywords"))

RunOver == pc \in {"raised", "returned"}

\* C1: in any run the clustering stage is executed at most 3 times, whatever
\* each clustering pass returns (clusters, all noise, the empty result for
\* malformed vectors, or the singleton fallback after a density-clustering fault).
C1_AtMostThreePasses == ClusterPasses <= 3

\* C2: a run that reached the clustering stage gets continue from the gate and
\* executes campaign generation: no run that clustered is over without
\* generate_campaigns having been dispatched.
C2_ClusteredRunGeneratesCampaigns ==
    (RunOver /\ ClusterPasses > 0) => "generate_campaigns" \in Range(trace)

\* C3: between two consecutive evaluations of the quality gate the attempt
\* counter has grown by at least 1.
C3_CounterGrowsBetweenGateEvaluations ==
    gate.evals >= 2 => gate.attempts >= gate.prev_attempts + 1

\* C4: a fault raised by an external collaborator stage (here the seed-keyword
\* generator or the vector store) never ends the run with that fault.
C4_CollaboratorFaultNeverFailsRun ==
    /\ exc # Some("seed keyword generator fault")
    /\ exc # Some("vector store fault")

\* C5: a run never performs more than 50 stage invocations; a run stopped by
\* the step ceiling stopped at exactly 50 invocations without having run
\* campaign generation, and its job ends failed with the recursion error and
\* with no results.
C5_StepCeiling ==
    /\ steps <= 50
    /\ Len(trace) <= 50
    /\ exc = Some("GraphRecursionError") =>
          /\ RunOver
          /\ Len(trace) = 50
          /\ IsNone(state.final_report)
          /\ tasks[1].at \in {"returned", "done"} =>
                Get(tasks[1].result) = [status |-> "failed", error |-> "GraphRecursionError"]
          /\ tasks[1].at = "done" =>
                /\ job_statuses[tasks[1].job_id].status = "failed"
                /\ job_statuses[tasks[1].job_id].errors = <<"GraphRecursionError">>
                /\ IsNone(job_statuses[tasks[1].job_id].results)

C5_Witness ==
    /\ exc = Some("GraphRecursionError")
    /\ Len(tasks) = 1
    /\ tasks[1].at = "done"
    /\ job_statuses[tasks[1].job_id].status = "failed"

StageOrder == <<"analyze_websites", "generate_seed_keywords", "fetch_keywords",
                "process_keywords", "enrich_keywords", "manage_vectors">>

\* C6: stages are dispatched in the order analyze_websites, generate_seed_keywords,
\* fetch_keywords, process_keywords, enrich_keywords, manage_vectors, then one or
\* more cluster_keywords, then generate_campaigns as the last; no stage but
\* cluster_keywords is dispatched twice, and generate_campaigns directly follows a
\* clustering pass.
C6_StageOrder ==
    \A i \in DOMAIN trace :
        /\ i <= Len(StageOrder) => trace[i] = StageOrder[i]
        /\ i > Len(StageOrder) =>
              \/ trace[i] = "cluster_keywords"
              \/ /\ trace[i] = "generate_campaigns"
                 /\ i = Len(trace)
                 /\ trace[i - 1] = "cluster_keywords"

C6_Witness ==
    /\ pc = "END"
    /\ ClusterPasses >= 2
    /\ trace[Len(trace)] = "generate_campaigns"

\* C7: each accepted submission has its own job id and registry entry, also
\* when two submissions fall in the same clock second, so that an entry is
\* written by one run only.
C7_OneEntryPerSubmission ==
    /\ \A t, u \in DOMAIN tasks : t # u => tasks[t].job_id # tasks[u].job_id
    /\ Cardinality(DOMAIN job_statuses) = Len(tasks)

GateInputGroups == IF IsNone(state.ad_groups) THEN <<>> ELSE Get(state.ad_groups)

GateInputPoor ==
    Cardinality({i \in DOMAIN GateInputGroups :
                    \/ Len(GateInputGroups[i].keywords) < 3
                    \/ GateInputGroups[i].score < 70})

\* C8: with embeddings present and a non-empty ad-group list, the gate answers
\* recluster exactly when the poor groups (fewer than 3 keywords, or score below
\* 0.7) are strictly more than 30% of the groups and the attempt counter is
\* below 2; otherwise it answers continue.
C8_PoorQualityBranch ==
    (gate.evals = 1 /\ Len(state.embeddings) > 0 /\ Len(GateInputGroups) > 0) =>
        /\ gate.decision \in {"recluster", "continue_processing"}
        /\ gate.decision = "recluster" <=>
              /\ 10 * GateInputPoor > 3 * Len(GateInputGroups)
              /\ state.clustering_attempts < 2

C8_Witness ==
    /\ gate.evals = 1
    /\ Len(state.embeddings) > 0
    /\ Len(GateInputGroups) = 5
    /\ GateInputPoor = 2
    /\ state.clustering_attempts = 0
    /\ gate.decision = "recluster"

C10_NoEmbeddingsContinue ==
    (gate.evals = 1 /\ Len(state.embeddings) = 0) =>
        gate.decision = "continue_processing"

C10_Witness ==
    /\ gate.evals = 1
    /\ Len(state.embeddings) = 0
    /\ Len(GateInputGroups) = 0
    /\ state.clustering_attempts = 0
    /\ gate.decision = "continue_processing"

PassDone == pc = "should_recluster"

PassGroups == IF IsNone(state.ad_groups) THEN <<>> ELSE Get(state.ad_groups)

PassIds == [i \in DOMAIN state.embeddings |-> state.embeddings[i].keyword]

\* how many (group, position) slots of the returned groups hold keyword id k
Memberships(k) ==
    Cardinality({gp \in UNION {{<<g, p>> : p \in DOMAIN PassGroups[g].keywords} :
                                   g \in DOMAIN PassGroups} :
                    PassGroups[gp[1]].keywords[gp[2]] = k})

C13_FaultGivesSingletons ==
    (clusterer.called /\ clusterer.fault) =>
        /\ PassDone
        /\ exc = NoneV
        /\ Len(PassGroups) = Len(PassIds)
        /\ \A i \in DOMAIN PassGroups :
              /\ PassGroups[i].keywords = <<PassIds[i]>>
              /\ PassGroups[i].score = 70

C13_Witness ==
    /\ clusterer.called
    /\ clusterer.fault
    /\ Len(PassIds) = 4
    /\ Len(PassGroups) = 4

\* C14: a pass on 1 or 2 embeddings returns exactly one singleton ad group per
\* keyword, each with score 0.8; a pass on no embeddings returns no ad groups.
C14_SmallInputs ==
    PassDone =>
        /\ Len(PassIds) \in {1, 2} =>
              /\ Len(PassGroups) = Len(PassIds)
              /\ \A i \in DOMAIN PassGroups :
                    /\ PassGroups[i].keywords = <<PassIds[i]>>
                    /\ PassGroups[i].score = 80
        /\ Len(PassIds) = 0 => state.ad_groups = Some(<<>>)

C14_Witness ==
    /\ PassDone
    /\ Len(PassIds) = 2
    /\ Len(PassGroups) = 2
    /\ PassGroups[2].score = 80

ProcessDone == ~IsNone(processed) /\ pc = "enrich_keywords"

ProcIn == IF IsNone(processed) \/ IsNone(Get(processed).raw_keywords)
          THEN <<>> ELSE Get(Get(processed).raw_keywords)

ProcOut == IF IsNone(state.raw_keywords) THEN <<>> ELSE Get(state.raw_keywords)

Unscored(kw) == [kw EXCEPT !.opportunity_score = NoneV]

OutScore(i) == Get(ProcOut[i].opportunity_score)

InOutput(kw) == \E i \in DOMAIN ProcOut : Unscored(ProcOut[i]) = Unscored(kw)

\* the filter of the specification: a keyword is dropped if any of these holds
Dropped(kw) ==
    \/ kw.avg_monthly_searches < 50
    \/ kw.suggested_bid <= 0
    \/ kw.words > 6
    \/ kw.chars <= 1

\* the score formula of the specification, in millionths:
\* 0.4*volume + 0.3*(1 - min(competition/5, 1)) + 0.3*min(bid/100, 1),
\* times 1.2 for a commercial term, clamped to 1.0
ScoreFormula(kw) ==
    LET volume == IF kw.avg_monthly_searches <= 100 THEN 200000
                  ELSE IF kw.avg_monthly_searches <= 1000 THEN 500000
                  ELSE IF kw.avg_monthly_searches <= 5000 THEN 800000
                  ELSE 1000000
        competition == 1000000 - (IF kw.competition >= 50 THEN 1000000
                                  ELSE 20000 * kw.competition)
        bid == IF kw.suggested_bid >= 10000 THEN 1000000 ELSE 100 * kw.suggested_bid
        sum == (4 * volume + 3 * competition + 3 * bid) \div 10
        boosted == IF kw.commercial THEN (12 * sum) \div 10 ELSE sum
    IN IF boosted > 1000000 THEN 1000000 ELSE boosted

\* the input keywords that pass the filter and reach the score threshold
Survivors == {j \in DOMAIN ProcIn : ~Dropped(ProcIn[j]) /\ ScoreFormula(ProcIn[j]) >= 150000}

\* C15: the processor's output holds no keyword with fewer than 50 monthly
\* searches, a suggested bid of 0 or less, more than 6 words or a trimmed term
\* of at most 1 character, and no keyword that was not in its input.
C15_OutputPassesFilter ==
    ProcessDone =>
        \A i \in DOMAIN ProcOut :
            /\ ProcOut[i].avg_monthly_searches >= 50
            /\ ProcOut[i].suggested_bid > 0
            /\ ProcOut[i].words <= 6
            /\ ProcOut[i].chars > 1
            /\ \E j \in DOMAIN ProcIn : Unscored(ProcIn[j]) = Unscored(ProcOut[i])

C15_Witness ==
    /\ ProcessDone
    /\ Len(ProcIn) = 3
    /\ Len(ProcOut) = 1
    /\ \E j \in DOMAIN ProcIn : ProcIn[j].avg_monthly_searches < 50

\* C16: the processor's output is in non-increasing order of opportunity score
\* and has at most 150 entries; when more than 150 keywords pass the filter and
\* the threshold, exactly 150 are kept and none of those left out scores above
\* a kept one.
C16_SortedAndCapped ==
    ProcessDone =>
        /\ Len(ProcOut) <= 150
        /\ \A i, j \in DOMAIN ProcOut : i < j => OutScore(i) >= OutScore(j)
        /\ Cardinality(Survivors) > 150 =>
              /\ Len(ProcOut) = 150
              /\ \A j \in Survivors :
                    ~InOutput(ProcIn[j]) =>
                        \A i \in DOMAIN ProcOut : OutScore(i) >= ScoreFormula(ProcIn[j])

C16_Witness ==
    /\ ProcessDone
    /\ Cardinality(Survivors) = 152
    /\ Len(ProcOut) = 150
    /\ OutScore(1) > OutScore(150)
    /\ ~InOutput(ProcIn[1])

\* C17: every keyword of the processor's output carries the value of the score
\* formula as its opportunity score, and that value is at least 0.15; when at
\* most 150 input keywords pass the filter and score 0.15 or more, each of them
\* is in the output.
C17_ThresholdAndScore ==
    ProcessDone =>
        /\ \A i \in DOMAIN ProcOut :
              /\ ~IsNone(ProcOut[i].opportunity_score)
              /\ OutScore(i) = ScoreFormula(ProcOut[i])
              /\ OutScore(i) >= 150000
        /\ Cardinality(Survivors) <= 150 =>
              \A j \in Survivors : InOutput(ProcIn[j])

C17_Witness ==
    /\ ProcessDone
    /\ Len(ProcIn) = 2
    /\ Len(ProcOut) = 1
    /\ \E j \in DOMAIN ProcIn : ~Dropped(ProcIn[j]) /\ ScoreFormula(ProcIn[j]) < 150000
    /\ OutScore(1) = 263000

\* C18: the opportunity score the code computes for a keyword that passes the
\* filter and has competition in 0..5 lies in [0, 1], also when the 1.2
\* commercial multiplier applies; so does every score set in the output.
C18_ScoreInUnitInterval ==
    ProcessDone =>
        /\ \A j \in DOMAIN ProcIn :
              (~Dropped(ProcIn[j]) /\ ProcIn[j].competition \in 0..50) =>
                  CalculateOpportunityScore(ProcIn[j]) \in 0..1000000
        /\ \A i \in DOMAIN ProcOut : OutScore(i) \in 0..1000000

C18_Witness ==
    /\ ProcessDone
    /\ Len(ProcOut) = 1
    /\ ProcOut[1].commercial
    /\ ProcOut[1].avg_monthly_searches > 5000
    /\ ProcOut[1].competition = 0
    /\ ProcOut[1].suggested_bid >= 10000
    /\ OutScore(1) = 1000000

\* C19: of two keywords with equal monthly searches, competition and suggested
\* bid, one with a commercial-intent token and one without, the first scores at
\* least as much as the second.
C19_CommercialScoresAtLeast ==
    ProcessDone =>
        /\ \A a, b \in Range(ProcIn) :
              ( /\ a.avg_monthly_searches = b.avg_monthly_searches
                /\ a.competition = b.competition
                /\ a.suggested_bid = b.suggested_bid
                /\ a.commercial /\ ~b.commercial ) =>
                  CalculateOpportunityScore(a) >= CalculateOpportunityScore(b)
        /\ \A i, j \in DOMAIN ProcOut :
              ( /\ ProcOut[i].avg_monthly_searches = ProcOut[j].avg_monthly_searches
                /\ ProcOut[i].competition = ProcOut[j].competition
                /\ ProcOut[i].suggested_bid = ProcOut[j].suggested_bid
                /\ ProcOut[i].commercial /\ ~ProcOut[j].commercial ) =>
                  OutScore(i) >= OutScore(j)

C19_Witness ==
    /\ ProcessDone
    /\ Len(ProcOut) = 2
    /\ ProcOut[1].commercial /\ ~ProcOut[2].commercial
    /\ ProcOut[1].avg_monthly_searches = ProcOut[2].avg_monthly_searches
    /\ ProcOut[1].competition = ProcOut[2].competition
    /\ ProcOut[1].suggested_bid = ProcOut[2].suggested_bid
    /\ OutScore(1) > OutScore(2)

\* C20: when the processor's raw-keyword input is empty (no list, or an empty
\* one), its output is empty and the error log is as it was at its entry.
C20_EmptyInputLogsNothing ==
    (ProcessDone /\ ProcIn = <<>>) =>
        /\ ProcOut = <<>>
        /\ state.error_log = Get(processed).error_log

CampaignDone == pc = "END" /\ ~IsNone(state.campaigns) /\ Len(Get(state.campaigns)) > 0

SearchGroups == Get(state.campaigns)[1].ad_groups

\* the (ad group, position) pairs of the Bids of the search campaign
BidSlots == UNION {{<<g, b>> : b \in DOMAIN SearchGroups[g].keywords} : g \in DOMAIN SearchGroups}

BidAt(slot) == SearchGroups[slot[1]].keywords[slot[2]]

RawOf(k) == {r \in Range(ListOf(state.raw_keywords)) : r.keyword = k}

EnrichedOf(k) == {e \in Range(ListOf(state.enriched_keywords)) : e.keyword_id = k}

\* C22: every Bid of the search campaign has bid_low <= bid_high, for keyword
\* competition 0..5 and any non-negative target CPA.
C22_BidLowAtMostHigh ==
    CampaignDone => \A slot \in BidSlots : BidAt(slot).bid_low <= BidAt(slot).bid_high

C22_Witness ==
    /\ CampaignDone
    /\ \E slot \in BidSlots :
          /\ BidAt(slot).target_cpa = 73
          /\ \E r \in RawOf(BidAt(slot).keyword) : r.competition = 50
          /\ BidAt(slot).bid_low = 234
          /\ BidAt(slot).bid_high = 350

\* C23: the search campaign holds a Bid for a keyword only if the keyword is a
\* member of that ad group and has both raw data and enrichment; members
\* without either are skipped, the error log stays as it was and the stage
\* does not raise.
C23_BidsOnlyForKnownMembers ==
    (pc = "END" /\ ~IsNone(state.campaigns)) =>
        /\ exc = NoneV
        /\ state.error_log = <<>>
        /\ CampaignDone =>
              /\ Len(SearchGroups) = Len(Get(state.ad_groups))
              /\ \A slot \in BidSlots :
                    /\ BidAt(slot).keyword \in Range(Get(state.ad_groups)[slot[1]].keywords)
                    /\ RawOf(BidAt(slot).keyword) # {}
                    /\ EnrichedOf(BidAt(slot).keyword) # {}

C23_Witness ==
    /\ CampaignDone
    /\ Len(SearchGroups) = 1
    /\ Len(Get(state.ad_groups)[1].keywords) = 3
    /\ Len(SearchGroups[1].keywords) = 1
    /\ Len(ListOf(state.raw_keywords)) = 2
    /\ Len(ListOf(state.enriched_keywords)) = 2

\* the match types the specification gives an intent, whatever its case
ExpectedMatchTypes(intent) ==
    CASE intent \in {"brand", "Brand", "BRAND"} -> <<"EXACT", "PHRASE">>
      [] intent \in {"competitor", "Competitor"} -> <<"PHRASE", "EXACT">>
      [] intent \in {"transactional", "commercial", "COMMERCIAL", "high_intent"}
            -> <<"BROAD", "PHRASE">>
      [] OTHER -> <<"PHRASE">>

\* C30: the match types of every Bid follow from the intent of its keyword,
\* compared without regard to case: brand gives EXACT, PHRASE; competitor gives
\* PHRASE, EXACT; transactional, commercial and high_intent give BROAD, PHRASE;
\* any other intent gives PHRASE.
C30_MatchTypesFromIntent ==
    CampaignDone =>
        \A slot \in BidSlots :
            \A e \in EnrichedOf(BidAt(slot).keyword) :
                BidAt(slot).match_types = ExpectedMatchTypes(e.intent)

C30_Witness ==
    /\ CampaignDone
    /\ \E slot \in BidSlots :
          /\ \E e \in EnrichedOf(BidAt(slot).keyword) : e.intent = "COMMERCIAL"
          /\ BidAt(slot).match_types = <<"BROAD", "PHRASE">>

JobDone == Len(tasks) = 1 /\ tasks[1].at = "done"

Job == job_statuses[tasks[1].job_id]

JobCompleted == JobDone /\ Job.status = "completed" /\ ~IsNone(Job.results)

Delivered == Get(Job.results)

MonthlyBudget == state.initial_request.monthly_budget

BudgetOf(part) == IF "budget" \in DOMAIN Delivered[part] THEN Some(Delivered[part].budget)
                  ELSE NoneV

\* C21: in every completed run the delivered report's search, shopping and
\* performance-max budgets (in tenths) are 50%, 30% and 20% of monthly_budget
\* and sum to monthly_budget; monthly_budget 1000 gives 500, 300 and 200.
C21_BudgetSplit ==
    JobCompleted =>
        /\ BudgetOf("search_campaign") = Some(5 * MonthlyBudget)
        /\ BudgetOf("shopping_campaign") = Some(3 * MonthlyBudget)
        /\ BudgetOf("pmax_campaign") = Some(2 * MonthlyBudget)
        /\ MonthlyBudget = 1000 =>
              /\ BudgetOf("search_campaign") = Some(5000)
              /\ BudgetOf("shopping_campaign") = Some(3000)
              /\ BudgetOf("pmax_campaign") = Some(2000)

\* C24: the performance-max part of a completed run's delivered report holds
\* the two generic default themes when the run had no ad groups, and exactly
\* one theme per ad group, named after it, when it had some.
C24_PmaxThemes ==
    JobCompleted =>
        LET themes == Delivered.pmax_campaign.themes
            groups == ListOf(state.ad_groups)
        IN /\ groups = <<>> =>
                 /\ Len(themes) = 2
                 /\ themes[1].name = "Brand Awareness Theme"
                 /\ themes[2].name = "Product Category Theme"
           /\ groups # <<>> =>
                 /\ Len(themes) = Len(groups)
                 /\ \A i \in DOMAIN groups : themes[i].name = groups[i].name \o " Theme"

\* C25: a job whose status is failed has a non-empty errors list and no
\* results.
C25_FailedJobHasErrorsAndNoResults ==
    \A j \in DOMAIN job_statuses :
        job_statuses[j].status = "failed" =>
            /\ job_statuses[j].errors # <<>>
            /\ IsNone(job_statuses[j].results)

\* C26: a completed job carries the report and the run's error log: every
\* entry of the run's error log is among the job's errors.
C26_CompletedJobCarriesErrorLog ==
    (JobDone /\ Job.status = "completed") =>
        /\ ~IsNone(Job.results)
        /\ \A i \in DOMAIN state.error_log : state.error_log[i] \in Range(Job.errors)

\* C27: each output slot (seed_keywords, raw_keywords, enriched_keywords,
\* embeddings, ad_groups, campaigns, final_report) is written by at most one
\* stage during a run.
C27_OneWriterPerSlot ==
    \A slot \in OutputSlots : Cardinality(writers[slot]) <= 1

IsPrefix(a, b) == Len(a) <= Len(b) /\ SubSeq(b, 1, Len(a)) = a

\* C28: every step leaves the error log it found as a prefix of the error log
\* it leaves: entries are only appended.
C28_ErrorLogOnlyAppends == [][IsPrefix(state.error_log, state'.error_log)]_vars

C28_Witness ==
    /\ pc = "END"
    /\ state.error_log = <<"No seed keywords were generated to fetch.",
                           "No keywords to process", "No keywords to vectorize">>

\* C29: an ad group built from a non-noise cluster never has an empty name,
\* and when the naming collaborator raised or answered the empty string its
\* name is the one of the local fallback.
C29_ClusterNamesFallBack ==
    (PassDone /\ clusterer.called /\ ~clusterer.fault) =>
        \A g \in DOMAIN PassGroups :
            Len(PassGroups[g].keywords) >= 2 =>
                /\ PassGroups[g].name # ""
                /\ clusterer.naming \in {"fault", "empty"} =>
                      PassGroups[g].name = FallbackName(PassGroups[g].keywords)

ProductBids == Get(state.final_report).shopping_campaign.product_bids

Listed == {ProductBids[i].keyword : i \in DOMAIN ProductBids}

\* C31: whenever the designer builds the shopping campaign, its product-bid
\* list has min(20, number of raw keywords) entries, each of them a raw
\* keyword with its own search volume, and no raw keyword left out of the
\* list has a larger search volume than a listed one.
C31_ShoppingTopByVolume ==
    CampaignDone =>
        /\ Len(ProductBids) = Min(20, Len(ListOf(state.raw_keywords)))
        /\ \A i \in DOMAIN ProductBids :
              /\ \E r \in Range(ListOf(state.raw_keywords)) :
                    /\ r.keyword = ProductBids[i].keyword
                    /\ r.avg_monthly_searches = ProductBids[i].search_volume
              /\ \A r \in Range(ListOf(state.raw_keywords)) :
                    r.keyword \notin Listed
                        => ProductBids[i].search_volume >= r.avg_monthly_searches

C31_Witness ==
    /\ CampaignDone
    /\ Len(ListOf(state.raw_keywords)) = 22
    /\ Len(ProductBids) = 20
    /\ \E i \in 1..20 : ListOf(state.raw_keywords)[i].keyword \notin Listed

\* the keyword of the scenario: searches 80, suggested bid 1.0, competition 2
CheapShoes == RawKeyword("cheap shoes", 2, 11, FALSE, 80, 20, 100)

CheapShoesAt(i) == Unscored(ProcOut[i]) = CheapShoes

\* 0.4*volume + 0.3*competition + 0.3*bid over the components the scenario
\* states (volume 0.2, competition term 0.6, bid term 0.01), in millionths
Weighted == (4 * 200000 + 3 * 600000 + 3 * 10000) \div 10

Approximately(x, y) == x - y <= 500 /\ y - x <= 500   \* equal to three decimals

\* C32 as stated: the score the processor gives 'cheap shoes' (searches 80,
\* bid 1.0, competition 2) is approximately 0.203.
C32_CheapShoesScoreAsStated ==
    ProcessDone =>
        \A i \in DOMAIN ProcOut : CheapShoesAt(i) => Approximately(OutScore(i), 203000)

\* C32: for 'cheap shoes' with searches 80, bid 1.0 and competition 2 the
\* components are volume 0.2, competition term 0.6 and bid term 0.01, no
\* commercial multiplier applies, and the score the processor gives is
\* 0.4*volume + 0.3*competition + 0.3*bid, which is 0.263.
C32_CheapShoesScore ==
    /\ 200000 = 100000 * SearchVolumeNorm(CheapShoes)
    /\ 600000 = 1000000 - (CheapShoes.competition * 1000000) \div 50
    /\ 10000 = (CheapShoes.suggested_bid * 1000000) \div 10000
    /\ ~CheapShoes.commercial
    /\ ProcessDone =>
          /\ CheapShoes \in Range(ProcIn) => \E i \in DOMAIN ProcOut : CheapShoesAt(i)
          /\ \A i \in DOMAIN ProcOut :
                CheapShoesAt(i) => /\ OutScore(i) = Weighted
                                   /\ Approximately(OutScore(i), 263000)

C32_Witness ==
    /\ ProcessDone
    /\ \E i \in DOMAIN ProcOut : CheapShoesAt(i) /\ OutScore(i) = 263000

\* a stage of the run of task 1 has returned and the next stage is due
BetweenStages ==
    /\ Len(tasks) = 1 /\ tasks[1].at = "awaiting"
    /\ pc \in Nodes /\ steps > 0

\* a step that dispatches no stage, leaves no stage due and reports the job
\* of the run as cancelled
CancelsRun ==
    /\ trace' = trace
    /\ pc' \notin Nodes
    /\ job_statuses'[tasks[1].job_id].status = "cancelled"

\* C33: between any two stages the run can be cancelled: the program has a way
\* to go on from there that dispatches no further stage and reports the job
\* with the status cancelled.  (The mark and the report are read as one step;
\* the program has no step that writes a mark or the status cancelled, so a
\* reading in several steps fares no better.)
C33_CooperativeCancellation == BetweenStages => ENABLED (Next /\ CancelsRun)

\* the statuses the registry ever holds
KnownStatuses ==
    \A id \in DOMAIN job_statuses :
        job_statuses[id].status \in {"pending", "running", "completed", "failed"}

\* no keyword id is a member of the current ad groups more than once
CoveredAtMostOnce ==
    \A g1, g2 \in DOMAIN PassGroups :
        \A p1 \in DOMAIN PassGroups[g1].keywords, p2 \in DOMAIN PassGroups[g2].keywords :
            PassGroups[g1].keywords[p1] = PassGroups[g2].keywords[p2]
                => g1 = g2 /\ p1 = p2

\* groups is what a pass produces from the embeddings and the answers fit
\* gave (fault, labels), with no ad groups in the state it starts from
FreshGroups(fit, groups) ==
    \E probs \in [1..NumClusters(fit.labels) -> {Some(m) : m \in ProbMeans}],
       reply \in NameReplies :
        groups = ClusterKeywords([state EXCEPT !.ad_groups = NoneV],
                                 [fault |-> fit.fault, labels |-> fit.labels,
                                  probs |-> probs], reply).ad_groups

\* C34: after each clustering pass the ad_groups slot holds exactly the groups
\* of that pass, whatever the slot held before (nothing of an earlier pass is
\* kept or merged), and the ad groups campaign generation is dispatched with
\* cover each keyword at most once.
C34_GroupsRegeneratedWholesale ==
    [][ /\ (pc = "cluster_keywords" /\ pc' = "should_recluster")
             => /\ FreshGroups(clusterer', state'.ad_groups)
                /\ CoveredAtMostOnce'
        /\ pc' = "generate_campaigns" => CoveredAtMostOnce' ]_vars

C34_Witness ==
    /\ pc = "generate_campaigns"
    /\ ClusterPasses >= 2
    /\ Len(PassGroups) >= 2
    /\ CoveredAtMostOnce

\* what a later poll of a job id may show, given what an earlier poll showed
PollOrder(before, after) ==
    CASE before.status = "pending" -> TRUE
      [] before.status = "running" -> after.status \in {"running", "completed", "failed"}
      [] OTHER -> after = before     \* completed or failed: nothing changes again

\* C35: for each job id the polled statuses go pending, running, then one of
\* completed or failed, and the entry of a completed or failed job (status,
\* results, errors) never changes again, whatever else is submitted and run.
C35_StatusOrder ==
    [][\A id \in DOMAIN job_statuses :
          /\ id \in DOMAIN job_statuses'
          /\ job_statuses[id].status \in {"pending", "running", "completed", "failed"}
          /\ PollOrder(job_statuses[id], job_statuses'[id])]_vars

\* C36: in every state a poll can observe, a completed job has its results
\* set and progress 1.0, and progress 1.0 is shown by completed jobs only:
\* a pending job shows 0.0, a running or failed job at most 0.1.
C36_ProgressMatchesStatus ==
    \A id \in DOMAIN job_statuses :
        LET job == job_statuses[id]
        IN /\ job.status = "completed" => ~IsNone(job.results) /\ job.progress = 10
           /\ job.progress = 10 => job.status = "completed"
           /\ job.status = "pending" => job.progress = 0
           /\ job.status \in {"running", "failed"} => job.progress <= 1

CampaignsDispatched == "generate_campaigns" \in Range(trace)

\* C37: while no pass had a clustering fault and every pass returned a
\* non-empty ad-group list with more than 30% poor groups, the gate answers
\* recluster after the first pass and continue after the second, so such a run
\* clusters exactly twice before campaign generation; every pass over 1 or 2
\* embeddings is such a pass (singleton groups are poor), so every run with 1
\* or 2 embeddings clusters exactly twice.
C37_PoorGroupsClusterTwice ==
    /\ (gate.evals >= 1 /\ gate.all_poor) =>
            /\ gate.evals <= 2
            /\ gate.evals = 1 => gate.decision = "recluster"
            /\ gate.evals = 2 => gate.decision = "continue_processing"
            /\ ClusterPasses <= 2
            /\ (CampaignsDispatched \/ pc = "generate_campaigns") => ClusterPasses = 2
            /\ RunOver => CampaignsDispatched
    /\ (gate.evals >= 1 /\ Len(state.embeddings) \in {1, 2}) => gate.all_poor

C37_Witness ==
    /\ CampaignsDispatched
    /\ gate.all_poor /\ gate.evals = 2
    /\ Len(state.embeddings) = 3
    /\ ClusterPasses = 2

\* the vector stage ran and no keyword reached it
NoKeywordEmbedded == "manage_vectors" \in Range(trace) /\ FalsyList(state.raw_keywords)

\* C38: when no keyword reaches the embedding stage the embedding map stays
\* empty, the run makes exactly one clustering pass, the gate answers continue,
\* campaign generation returns zero campaigns and a report holding only a
\* summary, nothing is raised, and the job ends completed, not failed.
C38_EmptyRunCompletes ==
    NoKeywordEmbedded =>
        /\ Len(state.embeddings) = 0
        /\ IsNone(exc)
        /\ ClusterPasses <= 1
        /\ gate.evals <= 1
        /\ gate.evals = 1 => gate.decision = "continue_processing" /\ ClusterPasses = 1
        /\ (CampaignsDispatched /\ pc # "generate_campaigns") =>
              /\ ClusterPasses = 1 /\ gate.evals = 1
              /\ state.campaigns = Some(<<>>)
              /\ ~IsNone(state.final_report)
              /\ DOMAIN Get(state.final_report) = {"summary"}
        /\ RunOver => CampaignsDispatched
        /\ JobDone => Job.status = "completed" /\ ~IsNone(Job.results)

C38_Witness ==
    /\ NoKeywordEmbedded
    /\ JobDone
    /\ Job.status = "completed"
    /\ ClusterPasses = 1
    /\ state.campaigns = Some(<<>>)

====
